---- MODULE Spec2Model ----
(***************************************************************************)
(* ngt: the dual-pane file manager's transfer engine (copy / move / delete *)
(* batches run as goroutines), the relay goroutine that forwards their     *)
(* progress and result messages to the interface, and the interface's      *)
(* Update handlers, over a small host filesystem.                          *)
(*                                                                         *)
(* A path is a sequence of components; an absolute path starts with the    *)
(* component "/".  A file is a directory entry bound to an inode; an inode *)
(* holds a sequence of chunks (one chunk = one buffer of copyFileVFS).     *)
(***************************************************************************)
EXTENDS Integers, Sequences, FiniteSets, TLC

VARIABLES
    mode,           \* Model.mode
    activePanel,    \* Model.activePanel
    panels,         \* Model.panels: currentDir, vfs, fileList of each panel
    selectedFiles,  \* the map panel.selectedFiles of each panel (paths mapped to a bool)
    cwd,            \* the process-wide working directory (os.Chdir / os.Getwd)
    fs,             \* host filesystem: existing absolute path -> [dir, ino]
    inodes,         \* inode -> sequence of chunks
    batches,        \* the batch goroutines started so far, in start order
    relay,          \* the message the relay goroutine of main holds, or NoMsg
    hist,           \* observations of the run (what was sent, delivered, attempted)
    limits,         \* how many keys and batches this run may see
    archive,        \* a container's records, and the last listing asked of it
    opened,         \* the list item Enter was last pressed on, and what that did
    editor,         \* Model.editorFile and the text Model.editor holds
    streams,        \* the streams and container handles opened so far, with their Close calls
    bulkRenameFrom, \* Model.bulkRenameFrom: the pattern stored by the first Enter
    bulkRenameTo    \* Model.bulkRenameTo: the replacement stored by the second Enter

vars ==
    <<mode, activePanel, panels, selectedFiles, cwd, fs, inodes, batches, relay, hist, limits,
      archive, opened, editor, streams, bulkRenameFrom, bulkRenameTo>>

----------------------------------------------------------------------------
(* Bounds of the model *)

\* batches (copy, move or delete) started in one run
MaxBatches == 1
\* key presses and typed commands the interface handles in one run
MaxKeys == 3
\* the same two bounds in the longer runs (WideSpec)
WideBatches == 2
WideKeys == 4

----------------------------------------------------------------------------
(* Paths: filepath.IsAbs, filepath.Clean, filepath.Join, filepath.Base, filepath.Ext *)

Root == <<"/">>

IsAbs(p) == Len(p) > 0 /\ p[1] = "/"

RECURSIVE CleanFrom(_, _, _)
\* filepath.Clean over components: drops "." and empty segments, resolves ".."
\* against the components kept so far (never above the root).
CleanFrom(p, i, acc) ==
    IF i > Len(p) THEN acc
    ELSE LET c == p[i] IN
         IF c = "." \/ (c = "/" /\ i > 1) THEN CleanFrom(p, i + 1, acc)
         ELSE IF c = ".."
              THEN IF Len(acc) = 0 THEN CleanFrom(p, i + 1, <<"..">>)
                   ELSE IF acc = Root THEN CleanFrom(p, i + 1, acc)
                   ELSE IF acc[Len(acc)] = ".." THEN CleanFrom(p, i + 1, Append(acc, ".."))
                   ELSE CleanFrom(p, i + 1, SubSeq(acc, 1, Len(acc) - 1))
              ELSE CleanFrom(p, i + 1, Append(acc, c))

Clean(p) == CleanFrom(p, 1, <<>>)

\* filepath.Join(a, b): the elements joined by a separator, then cleaned.
Join(a, b) == Clean(a \o b)

\* filepath.Base(p): the last element; "/" for the root, "." for the empty path.
Base(p) == IF Len(p) = 0 THEN "." ELSE p[Len(p)]

\* filepath.Ext of the file names of this model.
Ext(name) ==
    CASE name = "t.tar" -> ".tar"
      [] name = "t.zip" -> ".zip"
      [] OTHER -> ""

ParentOf(p) == IF Len(p) <= 1 THEN p ELSE SubSeq(p, 1, Len(p) - 1)

IsPrefix(a, b) == Len(a) <= Len(b) /\ SubSeq(b, 1, Len(a)) = a

\* The kernel resolves a relative path against the process working directory.
Resolve(p) == IF IsAbs(p) THEN Clean(p) ELSE Clean(cwd \o p)

----------------------------------------------------------------------------
(* The host filesystem the os.* calls act on *)

NoIno == <<0, 0>>
Hole == <<NoIno, 0>>
DirNode == [dir |-> TRUE, ino |-> NoIno]
FileNode(i) == [dir |-> FALSE, ino |-> i]

\* Content of an initial file with inode i and n chunks.
Content(i, n) == [k \in 1..n |-> <<i, k>>]

InoX == <<0, 1>>
InoDX == <<0, 2>>
InoT == <<0, 3>>

\* The host's files when the program starts: the working directory /a holds
\* the file x, the tar container t.tar and the directory d, which holds
\* another file named x.
InitFs ==
    (Root :> DirNode) @@ (<<"/", "a">> :> DirNode) @@ (<<"/", "a", "d">> :> DirNode)
    @@ (<<"/", "a", "x">> :> FileNode(InoX))
    @@ (<<"/", "a", "d", "x">> :> FileNode(InoDX))
    @@ (<<"/", "a", "t.tar">> :> FileNode(InoT))

InitInodes ==
    (InoX :> Content(InoX, 2)) @@ (InoDX :> Content(InoDX, 1)) @@ (InoT :> Content(InoT, 1))

\* The member names recorded in the headers of the tar container t.tar.
TarEntries == {<<"x">>}

Wd == <<"/", "a">>

ExistsIn(f, p) == p \in DOMAIN f
IsDirIn(f, p) == p \in DOMAIN f /\ f[p].dir
IsFileIn(f, p) == p \in DOMAIN f /\ ~f[p].dir

Under(f, p) == {q \in DOMAIN f : IsPrefix(p, q)}
ChildrenIn(f, p) == {q \in DOMAIN f : Len(q) = Len(p) + 1 /\ IsPrefix(p, q)}

Restrict(f, S) == [q \in S |-> f[q]]

\* rename(2): whether os.Rename(old, new) succeeds on filesystem f.
RenameOk(f, old, new) ==
    /\ ExistsIn(f, old)
    /\ old # Root /\ new # Root
    /\ IsDirIn(f, ParentOf(new))
    /\ \/ old = new
       \/ /\ ~IsPrefix(old, new)
          /\ \/ ~ExistsIn(f, new)
             \/ /\ f[old].dir /\ f[new].dir /\ ChildrenIn(f, new) = {}
             \/ /\ ~f[old].dir /\ ~f[new].dir

\* rename(2): the filesystem after a successful os.Rename(old, new).
RenameFs(f, old, new) ==
    IF old = new THEN f
    ELSE LET moved == Under(f, old)
             keep == (DOMAIN f \ moved) \ {new}
             to(q) == new \o SubSeq(q, Len(old) + 1, Len(q))
         IN  [q \in keep \cup {to(m) : m \in moved} |->
                 IF q \in keep THEN f[q]
                 ELSE f[CHOOSE m \in moved : to(m) = q]]

\* os.RemoveAll(p): p and everything below it is unlinked (nothing when absent).
RemoveAllFs(f, p) == IF p = Root THEN f ELSE Restrict(f, DOMAIN f \ Under(f, p))

\* os.Create(p) succeeds when the parent is a directory and p is not one.
CreateOk(f, p) == IsDirIn(f, ParentOf(p)) /\ ~IsDirIn(f, p) /\ p # Root

\* os.ReadDir(p): the names and kinds of the children of directory p.
LocalReadDir(f, p) == {[title |-> Base(q), isDir |-> f[q].dir] : q \in ChildrenIn(f, p)}

----------------------------------------------------------------------------
(* The backends behind vfsHandler *)

LocalVFS == [kind |-> "local", filename |-> <<>>, entries |-> {}]
\* sftpVFS: a session with the remote host.
SftpVFS == [kind |-> "sftp", filename |-> <<>>, entries |-> {}]

\* The remote host an sftp session reaches: its directories, and the directory
\* the session starts in (what client.Getwd returns).
RemoteDirs == {Root, <<"/", "h">>, <<"/", "h", "r">>}
RemoteWd == <<"/", "h">>

\* sftpVFS.ReadDir: client.ReadDir(dir)
SftpReadDir(dir) ==
    {[title |-> Base(q), isDir |-> TRUE] :
        q \in {r \in RemoteDirs : Len(r) = Len(Clean(dir)) + 1 /\ IsPrefix(Clean(dir), r)}}
TarVFS(filename, entries) == [kind |-> "tar", filename |-> filename, entries |-> entries]

\* tarVFS.ReadDir: prefix = TrimPrefix(dir, filename + "/") + "/"; an entry is
\* listed when its name starts with the prefix and nothing but its last
\* element follows.
TarReadDir(v, dir) ==
    LET rel == IF IsPrefix(v.filename, dir) /\ Len(dir) > Len(v.filename)
               THEN SubSeq(dir, Len(v.filename) + 1, Len(dir))
               ELSE dir
    IN  {[title |-> Base(n), isDir |-> FALSE] :
            n \in {e \in v.entries : Len(e) = Len(rel) + 1 /\ IsPrefix(rel, e)}}

\* vfsHandler.ReadDir
VfsReadDir(v, f, dir) ==
    IF v.kind = "local"
    THEN IF IsDirIn(f, Resolve(dir))
         THEN [ok |-> TRUE, items |-> LocalReadDir(f, Resolve(dir))]
         ELSE [ok |-> FALSE, items |-> {}]
    ELSE IF v.kind = "sftp"
    THEN IF Clean(dir) \in RemoteDirs
         THEN [ok |-> TRUE, items |-> SftpReadDir(dir)]
         ELSE [ok |-> FALSE, items |-> {}]
    ELSE [ok |-> TRUE, items |-> TarReadDir(v, dir)]

\* newTarVFS: the container is opened and its headers are scanned; this
\* succeeds on a regular file that still holds the container's bytes.
TarMountOk(f, ino, file) ==
    /\ IsFileIn(f, Resolve(file))
    /\ ino[f[Resolve(file)].ino] = Content(InoT, 1)

\* vfsHandler.Open as copyFileVFS uses it: whether the stream opens, whether
\* it is a directory, and the inode it reads.
VfsOpen(v, f, ino, path) ==
    IF v.kind = "local"
    THEN IF ExistsIn(f, Resolve(path))
         THEN [ok |-> TRUE, isDir |-> f[Resolve(path)].dir, ino |-> f[Resolve(path)].ino]
         ELSE [ok |-> FALSE, isDir |-> FALSE, ino |-> NoIno]
    ELSE IF v.kind = "sftp"
    THEN [ok |-> Clean(path) \in RemoteDirs, isDir |-> Clean(path) \in RemoteDirs, ino |-> NoIno]
    ELSE IF TarMountOk(f, ino, v.filename) /\ path \in TarEntries
         THEN [ok |-> TRUE, isDir |-> FALSE, ino |-> f[Resolve(v.filename)].ino]
         ELSE [ok |-> FALSE, isDir |-> FALSE, ino |-> NoIno]

\* vfsHandler.Chdir: os.Chdir for the local backend, a Stat of the path for a
\* remote session, nothing for an archive.
ChdirOk(v, f, dir) ==
    IF v.kind = "local" THEN IsDirIn(f, Resolve(dir))
    ELSE IF v.kind = "sftp" THEN Clean(dir) \in RemoteDirs
    ELSE TRUE
CwdAfterChdir(v, dir) == IF v.kind = "local" THEN Resolve(dir) ELSE cwd

\* A faulty Getwd: every backend answers with the process working directory.
GetwdOfProcess(v, wd) == wd

\* vfsHandler.Getwd, given the process working directory wd: os.Getwd for the
\* local backend, client.Getwd for a remote session, the container's path
\* for an archive.
Getwd(v, wd) ==
    IF v.kind = "local" THEN wd
    ELSE IF v.kind = "sftp" THEN RemoteWd
    ELSE v.filename

----------------------------------------------------------------------------
(* The listings of the archive backends, on names as Go strings.  A string is
   a sequence of one-character strings. *)

Slash == <<"/">>

\* strings.HasPrefix
HasPrefix(str, prefix) == Len(prefix) <= Len(str) /\ SubSeq(str, 1, Len(prefix)) = prefix
\* strings.TrimPrefix
TrimPrefix(str, prefix) ==
    IF HasPrefix(str, prefix) THEN SubSeq(str, Len(prefix) + 1, Len(str)) ELSE str
\* strings.Contains(str, "/")
ContainsSlash(str) == \E n \in 1..Len(str) : str[n] = "/"
\* strings.Index(str, "/"), counted from 1 (0 when there is none)
IndexSlash(str) ==
    IF ContainsSlash(str) THEN CHOOSE n \in 1..Len(str) : str[n] = "/" /\ \A q \in 1..(n - 1) : str[q] # "/"
    ELSE 0

RECURSIVE BaseName(_)
\* filepath.Base on a string: trailing slashes are dropped, then the last
\* element is taken.
BaseName(str) ==
    IF Len(str) = 0 THEN <<".">>
    ELSE IF str[Len(str)] = "/"
         THEN IF Len(str) = 1 THEN Slash ELSE BaseName(SubSeq(str, 1, Len(str) - 1))
         ELSE LET cut == {n \in 1..Len(str) : str[n] = "/"}
              IN  IF cut = {} THEN str
                  ELSE SubSeq(str, (CHOOSE n \in cut : \A q \in cut : q <= n) + 1, Len(str))

\* The path of the container the archive backend was opened on.
ArchiveFile == <<"/", "t">>

\* The files a container may hold.
ArchiveFiles ==
    {<<"g">>, <<"d", "/", "g">>, <<"d", "/", "h">>, <<"d", "/", "e", "/", "g">>}

\* The directories a set of files lies in.
DirsOf(files) == UNION {{SubSeq(f, 1, n - 1) : n \in {q \in 1..Len(f) : f[q] = "/"}} : f \in files}

\* The records of a container holding the files, with or without a record
\* (named with a trailing slash) for each of their directories: hdr.Name and
\* hdr.Typeflag == tar.TypeDir for a tar, f.Name for a zip.
Records(files, explicit) ==
    {[name |-> f, isDir |-> FALSE] : f \in files} \cup
    (IF explicit THEN {[name |-> d \o Slash, isDir |-> TRUE] : d \in DirsOf(files)} ELSE {})

\* prefix := strings.TrimPrefix(dir, filename+"/") + "/"
ListPrefix(filename, dir) == TrimPrefix(dir, filename \o Slash) \o Slash

\* tarVFS.ReadDir: every record under the prefix whose remainder holds no
\* slash, under its base name and with the record's type flag.
TarList(records, filename, dir) ==
    LET prefix == ListPrefix(filename, dir)
    IN  {[name |-> BaseName(r.name), isDir |-> r.isDir] :
            r \in {q \in records :
                      /\ HasPrefix(q.name, prefix)
                      /\ ~ContainsSlash(SubSeq(q.name, Len(prefix) + 1, Len(q.name)))}}

\* zipVFS.ReadDir: a record under the prefix gives a directory entry named by
\* the first element of its remainder when the remainder holds a slash (once
\* per name), and else a file entry, whose Name() is the record's own name.
ZipList(records, filename, dir) ==
    LET prefix == ListPrefix(filename, dir)
        under == {q \in records : HasPrefix(q.name, prefix) /\ Len(q.name) > Len(prefix)}
        suffix(q) == SubSeq(q.name, Len(prefix) + 1, Len(q.name))
    IN  {IF ContainsSlash(suffix(q))
         THEN [name |-> SubSeq(suffix(q), 1, IndexSlash(suffix(q)) - 1), isDir |-> TRUE]
         ELSE [name |-> q.name, isDir |-> FALSE] : q \in under}

\* tarVFS.Stat / zipVFS.Stat: the record named exactly path, if there is one.
StatOk(records, path) == \E r \in records : r.name = path
StatIsDir(records, path) == \E r \in records : r.name = path /\ r.isDir

\* The directories a listing is asked for: the container's own path, and
\* directories inside it, given below the container's path or on their own.
QueryDirs ==
    {ArchiveFile,
     ArchiveFile \o <<"/", "d">>,
     ArchiveFile \o <<"/", "d", "/", "e">>,
     <<"d">>,
     <<"d", "/", "e">>}

NoArchive == [files |-> {}, explicit |-> FALSE, dir |-> <<>>, asked |-> FALSE, tar |-> {}, zip |-> {}]

\* A tar and a zip container hold the same files.
ArchiveInit ==
    \E files \in SUBSET ArchiveFiles : \E explicit \in BOOLEAN :
        archive = [NoArchive EXCEPT !.files = files, !.explicit = explicit]

\* ReadDir(dir) on the tar and on the zip backend of the two containers.
ReadDir(dir) ==
    /\ archive' = [archive EXCEPT
                      !.dir = dir, !.asked = TRUE,
                      !.tar = TarList(Records(archive.files, archive.explicit), ArchiveFile, dir),
                      !.zip = ZipList(Records(archive.files, archive.explicit), ArchiveFile, dir)]
    /\ UNCHANGED <<mode, activePanel, panels, selectedFiles, cwd, fs, inodes, batches, relay, hist, limits, opened, editor, streams, bulkRenameFrom, bulkRenameTo>>

----------------------------------------------------------------------------
(* Opening a list item: the names isArchive accepts and the backend
   mountArchive picks, on names as Go strings *)

\* strings.HasSuffix
HasSuffix(str, suffix) ==
    Len(suffix) <= Len(str) /\ SubSeq(str, Len(str) - Len(suffix) + 1, Len(str)) = suffix

\* filepath.Ext on a string: the suffix that starts at the last dot of the
\* last element, empty when that element holds no dot.
ExtOf(str) ==
    LET dots == {n \in 1..Len(str) : str[n] = "." /\ \A q \in n..Len(str) : str[q] # "/"}
    IN  IF dots = {} THEN <<>>
        ELSE SubSeq(str, CHOOSE n \in dots : \A q \in dots : q <= n, Len(str))

DotZip == <<".", "z", "i", "p">>
DotTar == <<".", "t", "a", "r">>
DotGz == <<".", "g", "z">>
DotTarGz == DotTar \o DotGz

\* isArchive
IsArchiveName(file) ==
    ExtOf(file) = DotZip \/ ExtOf(file) = DotTar \/ HasSuffix(file, DotTarGz)

\* mountArchive: the constructor chosen by the extension of the file.
MountBackend(file) ==
    IF ExtOf(file) = DotZip THEN "newZipVFS"
    ELSE IF ExtOf(file) = DotTar \/ ExtOf(file) = DotGz THEN "newTarVFS"
    ELSE "Unsupported archive"

\* Update, key enter on the selected list item: a directory is entered, a
\* file isArchive accepts is mounted, any other file goes to the editor.
OpenItem(title, isDir) ==
    IF isDir THEN "cd"
    ELSE IF IsArchiveName(title) THEN "mountArchive"
    ELSE "hedit"

\* The names of the items Enter is pressed on.
ItemNames ==
    {<<"x">>,
     <<"x">> \o DotZip,
     <<"x">> \o DotTar,
     <<"x">> \o DotTarGz,
     <<"x">> \o DotGz,
     <<"x", ".", "d">> \o DotZip,
     <<"x", ".", "t", "g", "z">>}

NoOpened == [title |-> <<>>, isDir |-> FALSE, does |-> "none", backend |-> "none"]

\* Enter on the list item (title, isDir).
EnterItem(title, isDir) ==
    /\ opened' = [title |-> title, isDir |-> isDir, does |-> OpenItem(title, isDir),
                   backend |-> IF OpenItem(title, isDir) = "mountArchive"
                               THEN MountBackend(title) ELSE "none"]
    /\ UNCHANGED <<mode, activePanel, panels, selectedFiles, cwd, fs, inodes, batches, relay, hist, limits, archive, editor, streams, bulkRenameFrom, bulkRenameTo>>

----------------------------------------------------------------------------
(* Streams: tarVFS.Open, Close on what Open returned, and updatePreview *)

\* streams the model opens in one run
MaxStreams == 3

\* What tr.Next() finds while tarVFS.Open scans the container.
ScanOutcomes == {"found", "EOF", "error"}

\* The stream a backend's Open hands out, with the container handle behind
\* it: kind and gz say what was opened, returned whether Open returned a
\* stream, fileClosed whether the os.File that was opened has been closed,
\* closes how often Close was called on the stream, by who opened it.
Handle(kind, gz, returned, fileClosed, by) ==
    [kind |-> kind, gz |-> gz, returned |-> returned, fileClosed |-> fileClosed,
     closes |-> 0, by |-> by]

\* tarVFS.Open: os.Open(t.filename); for a .gz container gzip.NewReader(f),
\* closing f if that fails, and closer = gzr; then the scan: on EOF or on an
\* error closer.Close(), on a match a tarFile that keeps closer.
\* gzip.Reader.Close does not close the file under it.
TarOpen(gz, gzipOk, scan, by) ==
    IF gz /\ ~gzipOk THEN Handle("tar", gz, FALSE, TRUE, by)
    ELSE IF scan = "found" THEN Handle("tar", gz, TRUE, FALSE, by)
    ELSE Handle("tar", gz, FALSE, ~gz, by)

\* Open of the other backends: the stream is the file itself (os.File,
\* sftp.File) or a reader of one member of the zip container.
OtherOpen(kind, by) == Handle(kind, FALSE, TRUE, FALSE, by)

\* vfsHandler.Open that succeeds.
Opened(kind, gz, by) ==
    IF kind = "tar" THEN TarOpen(gz, TRUE, "found", by) ELSE OtherOpen(kind, by)

\* Close on a stream: tarFile.Close is closer.Close() (the file for a plain
\* container, the gzip reader for a compressed one), zipFile.Close closes
\* the member's reader, os.File and sftp.File close themselves.
Close(h) ==
    [h EXCEPT !.closes = @ + 1,
              !.fileClosed = @ \/ (h.kind = "tar" /\ ~h.gz) \/ h.kind \in {"local", "sftp"}]

\* The stream implements io.Seeker.
Seekable(h) == h.kind \in {"local", "sftp"}

\* updatePreview from Open on: the streams it has opened when it returns.
\* Every defer closes the stream f held when the defer statement ran.
PreviewStreams(kind, gz, openOk, statOk, readOk, reopenOk) ==
    IF ~openOk THEN <<>>
    ELSE LET first == Opened(kind, gz, "preview")
         IN  IF ~statOk \/ ~readOk THEN <<Close(first)>>
             ELSE IF Seekable(first) THEN <<Close(first)>>
             ELSE IF ~reopenOk THEN <<Close(Close(first))>>
             ELSE <<Close(Close(first)), Close(Opened(kind, gz, "preview"))>>

\* A caller (copyFileVFS, hedit) opens a member of a tar container.
OpenTar(gz, gzipOk, scan) ==
    /\ Len(streams) < MaxStreams
    /\ streams' = Append(streams, TarOpen(gz, gzipOk, scan, "caller"))
    /\ UNCHANGED <<mode, activePanel, panels, selectedFiles, cwd, fs, inodes, batches, relay, hist, limits, archive, opened, editor, bulkRenameFrom, bulkRenameTo>>

\* The caller closes the stream it was given (defer src.Close()).
CloseStream(n) ==
    /\ streams[n].by = "caller" /\ streams[n].returned /\ streams[n].closes = 0
    /\ streams' = [streams EXCEPT ![n] = Close(@)]
    /\ UNCHANGED <<mode, activePanel, panels, selectedFiles, cwd, fs, inodes, batches, relay, hist, limits, archive, opened, editor, bulkRenameFrom, bulkRenameTo>>

\* updatePreview of a file of a panel bound to a backend of the given kind.
UpdatePreview(kind, gz, openOk, statOk, readOk, reopenOk) ==
    /\ Len(streams) + 2 <= MaxStreams
    /\ streams' = streams \o PreviewStreams(kind, gz, openOk, statOk, readOk, reopenOk)
    /\ UNCHANGED <<mode, activePanel, panels, selectedFiles, cwd, fs, inodes, batches, relay, hist, limits, archive, opened, editor, bulkRenameFrom, bulkRenameTo>>

----------------------------------------------------------------------------
(* The interface: Update and the Model methods it calls *)

\* make(map[string]bool)
NewMap == <<>>

\* The paths a selectedFiles map holds with the value true: the loops of
\* the batch goroutines (for f := range sel { if sel[f] ... }).
Selected(sel) == {f \in DOMAIN sel : sel[f]}

NoMsg == [type |-> "none"]

\* No file has been opened in the editor.
NoEditor == [file |-> <<>>, value |-> <<>>]

\* A progress value is a fraction <<numerator, denominator>>; a denominator of
\* 0 with a positive numerator is the float +Inf.  NoProgress: none emitted yet.
NoProgress == <<0, 1>>

\* refreshPanel: the panel's list is replaced by the sorted listing of its
\* current directory; a failed listing leaves it as it was.
RefreshPanel(p, f) ==
    LET r == VfsReadDir(p.vfs, f, p.currentDir)
    IN  IF r.ok THEN [p EXCEPT !.fileList = r.items] ELSE p

\* isArchive
IsArchive(title) == Ext(title) = ".zip" \/ Ext(title) = ".tar"

InitPanel == RefreshPanel([currentDir |-> Wd, vfs |-> LocalVFS, fileList |-> {}], InitFs)

InitHist ==
    [keys |-> 0, sent |-> <<>>, delivered |-> <<>>, selAtResult |-> <<>>,
     earlyTerminal |-> <<>>, lateProgress |-> <<>>, attempted |-> <<>>, failed |-> <<>>,
     renamed |-> <<>>, removed |-> <<>>, last |-> <<>>,
     failedMounts |-> [tar |-> 0, sftp |-> 0], archiveCd |-> FALSE, failedCd |-> FALSE, ignored |-> FALSE,
     live |-> [i \in {0, 1} |-> 0]]

Start ==
    /\ mode = "explorer"
    /\ activePanel = 0
    /\ cwd = Wd
    /\ fs = InitFs
    /\ inodes = InitInodes
    /\ panels = [i \in {0, 1} |-> InitPanel]
    /\ selectedFiles = [i \in {0, 1} |-> NewMap]
    /\ batches = <<>>
    /\ relay = NoMsg
    /\ hist = InitHist
    /\ archive = NoArchive
    /\ opened = NoOpened
    /\ editor = NoEditor
    /\ streams = <<>>
    /\ bulkRenameFrom = ""
    /\ bulkRenameTo = ""

Init == Start /\ limits = [keys |-> MaxKeys, batches |-> MaxBatches]

WideInit == Start /\ limits = [keys |-> WideKeys, batches |-> WideBatches]

\* The state after the user has taken the second panel to /a/d (tab, cd d,
\* tab): the panels show different directories, and the process working
\* directory is the one of the last cd.
LiveInit ==
    /\ mode = "explorer"
    /\ activePanel = 0
    /\ cwd = <<"/", "a", "d">>
    /\ fs = InitFs
    /\ inodes = InitInodes
    /\ panels = [i \in {0, 1} |->
                    IF i = 0 THEN InitPanel
                    ELSE RefreshPanel([InitPanel EXCEPT !.currentDir = <<"/", "a", "d">>], InitFs)]
    /\ selectedFiles = [i \in {0, 1} |-> NewMap]
    /\ batches = <<>>
    /\ relay = NoMsg
    /\ hist = InitHist
    /\ archive = NoArchive
    /\ opened = NoOpened
    /\ editor = NoEditor
    /\ streams = <<>>
    /\ bulkRenameFrom = ""
    /\ bulkRenameTo = ""
    /\ limits = [keys |-> MaxKeys, batches |-> MaxBatches]

\* Update, key tab: the other panel becomes the active one.
KeyTab ==
    /\ mode = "explorer"
    /\ hist.keys < limits.keys
    /\ activePanel' = 1 - activePanel
    /\ hist' = [hist EXCEPT !.keys = @ + 1]
    /\ UNCHANGED <<mode, panels, selectedFiles, cwd, fs, inodes, batches, relay, limits, archive, opened, editor, streams, bulkRenameFrom, bulkRenameTo>>

\* Update, key r: refreshPanel(activePanel).
KeyRefresh ==
    /\ mode = "explorer"
    /\ hist.keys < limits.keys
    /\ panels' = [panels EXCEPT ![activePanel] = RefreshPanel(@, fs)]
    /\ hist' = [hist EXCEPT !.keys = @ + 1]
    /\ UNCHANGED <<mode, activePanel, selectedFiles, cwd, fs, inodes, batches, relay, limits, archive, opened, editor, streams, bulkRenameFrom, bulkRenameTo>>

\* A faulty toggle: the path is marked whatever it was.
ToggleOn(sel, fullPath) ==
    [f \in DOMAIN sel \cup {fullPath} |-> IF f = fullPath THEN TRUE ELSE sel[f]]

\* selectedFiles[fullPath] = !selectedFiles[fullPath]; a path that is not a
\* key of the map reads as false, and the assignment makes it a key.
Toggle(sel, fullPath) ==
    [f \in DOMAIN sel \cup {fullPath} |->
        IF f = fullPath THEN ~(f \in DOMAIN sel /\ sel[f]) ELSE sel[f]]

\* Update, key space: the path of the item under the cursor is toggled in the
\* active panel's selectedFiles.
KeySelectIt ==
    /\ mode = "explorer"
    /\ hist.keys < limits.keys
    /\ hist' = [hist EXCEPT !.keys = @ + 1]
    /\ \E it \in panels[activePanel].fileList :
         LET fullPath == Join(panels[activePanel].currentDir, <<it.title>>)
         IN  selectedFiles' = [selectedFiles EXCEPT ![activePanel] = Toggle(@, fullPath)]
    /\ UNCHANGED <<mode, activePanel, panels, cwd, fs, inodes, batches, relay, limits, archive, opened, editor, streams, bulkRenameFrom, bulkRenameTo>>

\* A faulty Model: both panels are one and the same panel.
SetBothPanels(ps, idx, p) == [i \in {0, 1} |-> p]

\* p := &m.panels[m.activePanel]: what a command writes to p is written to
\* that element of the array, and to no other.
SetPanel(ps, idx, p) == [ps EXCEPT ![idx] = p]

CdArgs == {<<"..">>, <<"d">>}

\* executeCommand, case "cd": the directory asked for.
CdTarget(p, arg) == IF IsAbs(arg) THEN arg ELSE Join(p.currentDir, arg)

\* A faulty failed cd: the panel's path is already the one asked for.
CdFailedPartial(p, newDir) == [p EXCEPT !.currentDir = newDir]

\* executeCommand, case "cd", when Chdir returns an error: the status line
\* gets the error and the command returns with the panel as it was.
CdFailed(p, newDir) == p

\* executeCommand, case "cd": a relative argument is joined to the panel's
\* current directory; after a successful Chdir the panel takes Getwd and is
\* refreshed; a failed Chdir changes nothing.
CmdCd(arg) ==
    /\ mode = "explorer"
    /\ hist.keys < limits.keys
    /\ LET p == panels[activePanel]
       IN  IF ChdirOk(p.vfs, fs, CdTarget(p, arg))
           THEN /\ cwd' = CwdAfterChdir(p.vfs, CdTarget(p, arg))
                /\ panels' = SetPanel(panels, activePanel,
                                      RefreshPanel([p EXCEPT !.currentDir = Getwd(p.vfs, cwd')], fs))
                /\ hist' = [hist EXCEPT !.keys = @ + 1,
                                        !.archiveCd = @ \/ p.vfs.kind = "tar"]
           ELSE /\ cwd' = cwd
                /\ panels' = [panels EXCEPT ![activePanel] = CdFailed(p, CdTarget(p, arg))]
                /\ hist' = [hist EXCEPT !.keys = @ + 1, !.failedCd = TRUE]
    /\ UNCHANGED <<mode, activePanel, selectedFiles, fs, inodes, batches, relay, limits, archive, opened, editor, streams, bulkRenameFrom, bulkRenameTo>>

\* A faulty failed mount: the panel's path is already the container's.
MountFailedPartial(p, fullPath) == [p EXCEPT !.currentDir = fullPath]

\* mountArchive when the container cannot be opened or read: it returns with
\* the panel as it was.
MountFailed(p, fullPath) == p

\* mountArchive(file) for a listed item that isArchive accepts: the panel is
\* rebound to the archive backend and its current directory becomes the
\* container's path; a container that cannot be opened leaves the panel alone.
MountArchive ==
    /\ mode = "explorer"
    /\ hist.keys < limits.keys
    /\ \E it \in panels[activePanel].fileList :
         LET p == panels[activePanel]
             fullPath == Join(p.currentDir, <<it.title>>)
         IN  /\ ~it.isDir
             /\ IsArchive(it.title)
             /\ Ext(it.title) = ".tar"
             /\ IF TarMountOk(fs, inodes, fullPath)
                THEN /\ panels' = SetPanel(panels, activePanel,
                                           RefreshPanel([p EXCEPT !.vfs = TarVFS(fullPath, TarEntries),
                                                                  !.currentDir = fullPath], fs))
                     /\ hist' = [hist EXCEPT !.keys = @ + 1]
                ELSE /\ panels' = [panels EXCEPT ![activePanel] = MountFailed(p, fullPath)]
                     /\ hist' = [hist EXCEPT !.keys = @ + 1, !.failedMounts.tar = @ + 1]
    /\ UNCHANGED <<mode, activePanel, selectedFiles, cwd, fs, inodes, batches, relay, limits, archive, opened, editor, streams, bulkRenameFrom, bulkRenameTo>>

\* A faulty failed mount: the panel falls back to the local backend.
SftpFailedToLocal(p) == [p EXCEPT !.vfs = LocalVFS]

\* newSFTPVFS failed: executeCommand returns with the panel as it was.
SftpFailed(p) == p

\* executeCommand, case "sftp": a session is opened (or not: the host may
\* refuse); the panel is rebound to it, its current directory becomes the
\* session's working directory and it is refreshed.  The session the panel
\* held before is not closed.
CmdSftp ==
    /\ mode = "explorer"
    /\ hist.keys < limits.keys
    /\ LET p == panels[activePanel]
       IN  \E ok \in BOOLEAN :
             IF ok
             THEN /\ panels' = SetPanel(panels, activePanel,
                                        RefreshPanel([p EXCEPT !.vfs = SftpVFS,
                                                               !.currentDir = Getwd(SftpVFS, cwd)], fs))
                  /\ hist' = [hist EXCEPT !.keys = @ + 1, !.live[activePanel] = @ + 1]
             ELSE /\ panels' = [panels EXCEPT ![activePanel] = SftpFailed(p)]
                  /\ hist' = [hist EXCEPT !.keys = @ + 1, !.failedMounts.sftp = @ + 1]
    /\ UNCHANGED <<mode, activePanel, selectedFiles, cwd, fs, inodes, batches, relay, limits, archive, opened, editor, streams, bulkRenameFrom, bulkRenameTo>>

----------------------------------------------------------------------------
(* Starting a batch: executeCommand (cp, mv, rm), copyToOtherPanel, moveToOtherPanel *)

\* The Model value the batch goroutine works on: Update has a value receiver,
\* so the goroutine keeps the copy of the Model that Update held when it ran
\* the go statement (panels by value; the selectedFiles maps by reference).
Snapshot ==
    [active |-> activePanel,
     dir    |-> [i \in {0, 1} |-> panels[i].currentDir],
     vfs    |-> [i \in {0, 1} |-> panels[i].vfs]]

NewBatch(kind, args) ==
    [kind |-> kind, args |-> args, m |-> Snapshot, pc |-> "collect",
     pSelectedFiles |-> "shared", sources |-> <<>>, dst |-> <<>>, total |-> 0,
     i |-> 0, jobs |-> <<>>, err |-> "nil"]

\* What is noted when a goroutine is started by a key or a command.
Started(h) ==
    [h EXCEPT !.keys = @ + 1,
              !.sent = Append(@, 0),
              !.delivered = Append(@, FALSE),
              !.selAtResult = Append(@, {}),
              !.earlyTerminal = Append(@, FALSE),
              !.lateProgress = Append(@, FALSE),
              !.attempted = Append(@, {}),
              !.failed = Append(@, {}),
              !.renamed = Append(@, {}),
              !.removed = Append(@, {}),
              !.last = Append(@, NoProgress)]

\* mode = progressMode; go m.<kind>WithProgress(args)
StartBatch(kind, args) ==
    /\ mode = "explorer"
    /\ Len(batches) < limits.batches
    /\ hist.keys < limits.keys
    /\ mode' = "progress"
    /\ batches' = Append(batches, NewBatch(kind, args))
    /\ hist' = Started(hist)
    /\ UNCHANGED <<activePanel, panels, selectedFiles, cwd, fs, inodes, relay, limits, archive, opened, editor, streams, bulkRenameFrom, bulkRenameTo>>

\* The arguments typed after cp or mv: none, or a source name and a destination.
TypedArgs == {<<>>, <<<<"x">>, <<"d">>>>}

\* copyToOtherPanel: args = {"cp", ".", other panel's currentDir}
KeyCopy == StartBatch("cp", <<<<".">>, panels[1 - activePanel].currentDir>>)
\* moveToOtherPanel: args = {"mv", ".", other panel's currentDir}
KeyMove == StartBatch("mv", <<<<".">>, panels[1 - activePanel].currentDir>>)
\* executeCommand, case "cp"
CmdCp(args) == StartBatch("cp", args)
\* executeCommand, case "mv"
CmdMv(args) == StartBatch("mv", args)
\* executeCommand, case "rm" (also the delete key)
CmdRm == StartBatch("rm", <<>>)

----------------------------------------------------------------------------
(* The editor, keys during a transfer, and system commands *)

\* A faulty progressMode: the tab key still switches panels.
KeyTabInProgress(m) == [m EXCEPT !.activePanel = 1 - @]

\* Update, case tea.KeyMsg in progressMode: return m, nil.
KeyInProgress(m) == m

\* Update, any key while a transfer is shown.
KeyIgnored ==
    /\ mode = "progress"
    /\ hist.keys < limits.keys
    /\ LET m == KeyInProgress([mode |-> mode, activePanel |-> activePanel, panels |-> panels])
       IN  /\ mode' = m.mode
           /\ activePanel' = m.activePanel
           /\ panels' = m.panels
    /\ hist' = [hist EXCEPT !.keys = @ + 1, !.ignored = TRUE]
    /\ UNCHANGED <<selectedFiles, cwd, fs, inodes, batches, relay, limits, archive, opened, editor, streams, bulkRenameFrom, bulkRenameTo>>

\* The file names typed after hedit.
HeditArgs == {<<"x">>, <<"d">>}

\* executeCommand, case "hedit": Stat and Open through the panel's backend
\* and io.ReadAll; a file that could be read is put in the editor and the
\* mode becomes editorMode, anything else only sets the status line.
CmdHedit(arg) ==
    /\ mode = "explorer"
    /\ hist.keys < limits.keys
    /\ LET p == panels[activePanel]
           file == Join(p.currentDir, arg)
           o == VfsOpen(p.vfs, fs, inodes, file)
       IN  IF o.ok /\ ~o.isDir
           THEN /\ mode' = "editor"
                /\ editor' = [file |-> file, value |-> inodes[o.ino]]
           ELSE UNCHANGED <<mode, editor, streams, bulkRenameFrom, bulkRenameTo>>
    /\ hist' = [hist EXCEPT !.keys = @ + 1]
    /\ UNCHANGED <<activePanel, panels, selectedFiles, cwd, fs, inodes, batches, relay, limits, archive, opened, streams, bulkRenameFrom, bulkRenameTo>>

\* The chunk a key typed in the editor adds to its text.
Typed == <<NoIno, 1>>

\* Update, a key in editorMode that is neither save nor cancel: the editor
\* takes it.
KeyEdit ==
    /\ mode = "editor"
    /\ hist.keys < limits.keys
    /\ editor' = [editor EXCEPT !.value = Append(@, Typed)]
    /\ hist' = [hist EXCEPT !.keys = @ + 1]
    /\ UNCHANGED <<mode, activePanel, panels, selectedFiles, cwd, fs, inodes, batches, relay, limits, archive, opened, streams, bulkRenameFrom, bulkRenameTo>>

\* Update, the save key in editorMode: os.WriteFile(editorFile, text) creates
\* or truncates the file and writes the text (or fails); the mode is
\* explorerMode again either way.
KeySave ==
    /\ mode = "editor"
    /\ hist.keys < limits.keys
    /\ LET t == Resolve(editor.file)
           ino == IF ExistsIn(fs, t) THEN fs[t].ino ELSE <<0, 4 + hist.keys>>
       IN  IF CreateOk(fs, t)
           THEN /\ fs' = IF ExistsIn(fs, t) THEN fs ELSE fs @@ (t :> FileNode(ino))
                /\ inodes' = [q \in DOMAIN inodes \cup {ino} |->
                                 IF q = ino THEN editor.value ELSE inodes[q]]
           ELSE UNCHANGED <<fs, inodes>>
    /\ mode' = "explorer"
    /\ hist' = [hist EXCEPT !.keys = @ + 1]
    /\ UNCHANGED <<activePanel, panels, selectedFiles, cwd, batches, relay, limits, archive, opened, editor, streams, bulkRenameFrom, bulkRenameTo>>

\* Update, the cancel key in editorMode.
KeyCancel ==
    /\ mode = "editor"
    /\ hist.keys < limits.keys
    /\ mode' = "explorer"
    /\ hist' = [hist EXCEPT !.keys = @ + 1]
    /\ UNCHANGED <<activePanel, panels, selectedFiles, cwd, fs, inodes, batches, relay, limits, archive, opened, editor, streams, bulkRenameFrom, bulkRenameTo>>

\* executeCommand, default case: runSystemCommand starts a goroutine that
\* runs the command and sends its CommandResult; the mode stays as it is.
\* The command is one that leaves the files of this model alone.
CmdSystem ==
    /\ mode = "explorer"
    /\ Len(batches) < limits.batches
    /\ hist.keys < limits.keys
    /\ batches' = Append(batches, [NewBatch("sys", <<>>) EXCEPT !.pc = "run"])
    /\ hist' = Started(hist)
    /\ UNCHANGED <<mode, activePanel, panels, selectedFiles, cwd, fs, inodes, relay, limits, archive, opened, editor, streams, bulkRenameFrom, bulkRenameTo>>

\* The goroutine of runSystemCommand: cmd.CombinedOutput() returns, with an
\* error or without.
SystemRun(b) ==
    /\ batches[b].kind = "sys" /\ batches[b].pc = "run"
    /\ \E err \in {"nil", "exit status 1"} :
         batches' = [batches EXCEPT ![b].err = err, ![b].pc = "result"]
    /\ UNCHANGED <<mode, activePanel, panels, selectedFiles, cwd, fs, inodes, relay, hist, limits, archive, opened, editor, streams, bulkRenameFrom, bulkRenameTo>>

----------------------------------------------------------------------------
(* The batch goroutines *)

Perms(S) == {q \in [1..Cardinality(S) -> S] : \A a, b \in 1..Cardinality(S) : q[a] = q[b] => a = b}

\* The map the goroutine's copy of the panel refers to: the panel's own map
\* until the goroutine assigns a fresh one to its copy.
SelectedOf(bt) == IF bt.pSelectedFiles = "shared" THEN Selected(selectedFiles[bt.m.active]) ELSE {}

NewJob(src, dst) ==
    [src |-> src, dst |-> dst, pc |-> "start", err |-> "nil",
     sIno |-> NoIno, dIno |-> NoIno, size |-> 0, written |-> 0, percent |-> NoProgress]

\* The first lines of copyWithProgress and moveWithProgress: the selected
\* paths in map order (any order), or the explicit pair when nothing is
\* selected and a source and a destination were given.
Collected(bt, order) ==
    IF Len(order) = 0 /\ Len(bt.args) >= 2
    THEN [sources |-> <<Join(bt.m.dir[bt.m.active], bt.args[1])>>, dst |-> bt.args[2]]
    ELSE [sources |-> order, dst |-> bt.m.dir[1 - bt.m.active]]

\* copyWithProgress up to eg.Wait: one job is spawned for every source.
CopyCollect(b) ==
    /\ batches[b].kind = "cp" /\ batches[b].pc = "collect"
    /\ \E order \in Perms(SelectedOf(batches[b])) :
         LET c == Collected(batches[b], order)
         IN  batches' = [batches EXCEPT ![b] =
                 [@ EXCEPT !.sources = c.sources, !.dst = c.dst, !.total = Len(c.sources),
                           !.jobs = [k \in 1..Len(c.sources) |->
                                        NewJob(c.sources[k], Join(c.dst, <<Base(c.sources[k])>>))],
                           !.pc = "wait"]]
    /\ UNCHANGED <<mode, activePanel, panels, selectedFiles, cwd, fs, inodes, relay, hist, limits, archive, opened, editor, streams, bulkRenameFrom, bulkRenameTo>>

\* Inodes still reachable: bound to a path, or held open by a running job.
LiveInos(f, bs) ==
    {f[q].ino : q \in DOMAIN f} \cup
    UNION {UNION {{bs[b].jobs[k].sIno, bs[b].jobs[k].dIno} :
                    k \in {n \in 1..Len(bs[b].jobs) : bs[b].jobs[n].pc \in {"copy", "send"}}} :
           b \in 1..Len(bs)}

Reclaim(f, ino, bs) == Restrict(ino, DOMAIN ino \cap LiveInos(f, bs))

\* errgroup: the first non-nil error a job returns is the one Wait returns.
JobReturns(bt, k, e) ==
    [bt EXCEPT !.jobs[k].pc = "done", !.jobs[k].err = e,
               !.err = IF bt.err = "nil" THEN e ELSE bt.err]

\* A faulty copyFileVFS: the destination is created before the source is
\* looked at.
OpenFailedCreates(f, d) ==
    IF CreateOk(f, d) /\ ~ExistsIn(f, d) THEN f @@ (d :> FileNode(<<0, 1>>)) ELSE f

\* copyFileVFS returns the error of Open or Stat, or the directory error,
\* before it reaches os.Create: the file system stays as it is.
OpenFailed(f, d) == f

\* copyFileVFS up to the copy loop: Open, Stat, the directory test, os.Create.
JobOpen(b, k) ==
    /\ batches[b].kind = "cp" /\ batches[b].pc = "wait"
    /\ batches[b].jobs[k].pc = "start"
    /\ LET bt == batches[b]
           j == bt.jobs[k]
           o == VfsOpen(bt.m.vfs[bt.m.active], fs, inodes, j.src)
           d == Resolve(j.dst)
       IN  IF ~o.ok
           THEN /\ batches' = [batches EXCEPT ![b] = JobReturns(bt, k, "ErrNotExist")]
                /\ fs' = OpenFailed(fs, d)
                /\ UNCHANGED inodes
           ELSE IF o.isDir
           THEN /\ batches' = [batches EXCEPT ![b] = JobReturns(bt, k, "dir copy not implemented")]
                /\ fs' = OpenFailed(fs, d)
                /\ UNCHANGED inodes
           ELSE IF ~CreateOk(fs, d)
           THEN /\ batches' = [batches EXCEPT ![b] = JobReturns(bt, k, "create failed")]
                /\ UNCHANGED <<fs, inodes>>
           ELSE LET dIno == IF ExistsIn(fs, d) THEN fs[d].ino ELSE <<b, k>>
                IN  /\ fs' = IF ExistsIn(fs, d) THEN fs ELSE fs @@ (d :> FileNode(dIno))
                    /\ batches' = [batches EXCEPT ![b].jobs[k] =
                           [j EXCEPT !.pc = "copy", !.sIno = o.ino, !.dIno = dIno,
                                     !.size = Len(inodes[o.ino])]]
                    /\ inodes' = [q \in DOMAIN inodes \cup {dIno} |->
                                     IF q = dIno THEN <<>> ELSE inodes[q]]
    /\ UNCHANGED <<mode, activePanel, panels, selectedFiles, cwd, relay, hist, limits, archive, opened, editor, streams, bulkRenameFrom, bulkRenameTo>>

\* A write of one chunk at offset pos of a file's content.
WriteAt(content, pos, chunk) ==
    [n \in 1..(IF pos > Len(content) THEN pos ELSE Len(content)) |->
        IF n = pos THEN chunk ELSE IF n <= Len(content) THEN content[n] ELSE Hole]

\* A faulty callback argument: the fraction still to be written.
PercentRemaining(written, totalSize) == <<totalSize - written, totalSize>>

\* progressCb(float64(written) / float64(totalSize))
Percent(written, totalSize) == <<written, totalSize>>

\* One turn of the copy loop of copyFileVFS: Read a buffer; at end of file
\* return nil; otherwise Write it and go on to the progress callback.
JobChunk(b, k) ==
    /\ batches[b].kind = "cp" /\ batches[b].pc = "wait"
    /\ batches[b].jobs[k].pc = "copy"
    /\ LET bt == batches[b]
           j == bt.jobs[k]
           data == inodes[j.sIno]
       IN  IF j.written < Len(data)
           THEN /\ inodes' = [inodes EXCEPT ![j.dIno] = WriteAt(@, j.written + 1, data[j.written + 1])]
                /\ batches' = [batches EXCEPT ![b].jobs[k] =
                                  [j EXCEPT !.written = @ + 1, !.pc = "send",
                                            !.percent = Percent(j.written + 1, j.size)]]
           ELSE /\ batches' = [batches EXCEPT ![b] = JobReturns(bt, k, "nil")]
                /\ inodes' = Reclaim(fs, inodes, batches')
    /\ UNCHANGED <<mode, activePanel, panels, selectedFiles, cwd, fs, relay, hist, limits, archive, opened, editor, streams, bulkRenameFrom, bulkRenameTo>>

\* ProgressMsg{Percent: num / den}, tagged with the batch that sent it.
Progress(b, num, den) == [type |-> "progress", b |-> b, num |-> num, den |-> den]
\* CommandResult{Err: err}, tagged with the batch that sent it.
Result(b, err) == [type |-> "result", b |-> b, err |-> err]

\* overall := (float64(i) + percent) / float64(total)
Overall(i, percent, total) == <<i * percent[2] + percent[1], percent[2] * total>>

\* The progress callback of a job: overall = (i + written/size) / total is
\* sent on ProgressChan; the relay goroutine receives it.
JobSend(b, k) ==
    /\ batches[b].kind = "cp" /\ batches[b].pc = "wait"
    /\ batches[b].jobs[k].pc = "send"
    /\ relay = NoMsg
    /\ LET bt == batches[b]
           j == bt.jobs[k]
           o == Overall(k - 1, j.percent, bt.total)
       IN  /\ relay' = Progress(b, o[1], o[2])
           /\ batches' = [batches EXCEPT ![b].jobs[k].pc = "copy"]
           /\ hist' = [hist EXCEPT !.last[b] = o]
    /\ UNCHANGED <<mode, activePanel, panels, selectedFiles, cwd, fs, inodes, limits, archive, opened, editor, streams, bulkRenameFrom, bulkRenameTo>>

\* A faulty eg.Wait: it returns as soon as one job has failed.
WaitDoneFailFast(bt) ==
    \/ \A k \in 1..Len(bt.jobs) : bt.jobs[k].pc = "done"
    \/ bt.err # "nil"

\* eg.Wait returns once every job has returned.
WaitDone(bt) == \A k \in 1..Len(bt.jobs) : bt.jobs[k].pc = "done"

\* copyWithProgress after eg.Wait: the goroutine's copy of the panel gets a
\* fresh map; the final ProgressMsg and the result follow.
CopyWait(b) ==
    /\ batches[b].kind = "cp" /\ batches[b].pc = "wait"
    /\ WaitDone(batches[b])
    /\ batches' = [batches EXCEPT ![b].pSelectedFiles = "fresh", ![b].pc = "final"]
    /\ UNCHANGED <<mode, activePanel, panels, selectedFiles, cwd, fs, inodes, relay, hist, limits, archive, opened, editor, streams, bulkRenameFrom, bulkRenameTo>>

\* A faulty end of a batch: the final ProgressMsg is left out.
SendFinalSkipped(b) ==
    /\ batches[b].pc = "final"
    /\ batches' = [batches EXCEPT ![b].pc = "result"]
    /\ UNCHANGED <<mode, activePanel, panels, selectedFiles, cwd, fs, inodes, relay, hist, limits, archive, opened, editor, streams, bulkRenameFrom, bulkRenameTo>>

\* m.ProgressChan <- ProgressMsg{Percent: 1.0}
SendFinal(b) ==
    /\ batches[b].pc = "final"
    /\ relay = NoMsg
    /\ relay' = Progress(b, 1, 1)
    /\ batches' = [batches EXCEPT ![b].pc = "result"]
    /\ hist' = [hist EXCEPT !.last[b] = <<1, 1>>]
    /\ UNCHANGED <<mode, activePanel, panels, selectedFiles, cwd, fs, inodes, limits, archive, opened, editor, streams, bulkRenameFrom, bulkRenameTo>>

\* A faulty result send: nothing ever receives from ResultChan.
SendResultNoReceiver(b) ==
    /\ batches[b].pc = "result"
    /\ FALSE
    /\ UNCHANGED vars

\* A faulty end of a batch: the result is sent first and the final
\* ProgressMsg after it.
SendResultBeforeFinal(b) ==
    /\ batches[b].pc = "result"
    /\ hist.sent[b] = 0
    /\ relay = NoMsg
    /\ relay' = Result(b, batches[b].err)
    /\ batches' = [batches EXCEPT ![b].pc = "final"]
    /\ hist' = [hist EXCEPT !.sent[b] = @ + 1]
    /\ UNCHANGED <<mode, activePanel, panels, selectedFiles, cwd, fs, inodes, limits, archive, opened, editor, streams, bulkRenameFrom, bulkRenameTo>>

\* m.ResultChan <- CommandResult{...}: the last statement of a batch.
SendResult(b) ==
    /\ batches[b].pc = "result"
    /\ relay = NoMsg
    /\ relay' = Result(b, batches[b].err)
    /\ batches' = [batches EXCEPT ![b].pc = "done"]
    /\ hist' = [hist EXCEPT !.sent[b] = @ + 1]
    /\ UNCHANGED <<mode, activePanel, panels, selectedFiles, cwd, fs, inodes, limits, archive, opened, editor, streams, bulkRenameFrom, bulkRenameTo>>

\* moveWithProgress up to its loop.
MoveCollect(b) ==
    /\ batches[b].kind = "mv" /\ batches[b].pc = "collect"
    /\ \E order \in Perms(SelectedOf(batches[b])) :
         LET c == Collected(batches[b], order)
         IN  batches' = [batches EXCEPT ![b] =
                 [@ EXCEPT !.sources = c.sources, !.dst = c.dst, !.total = Len(c.sources),
                           !.pc = "loop"]]
    /\ UNCHANGED <<mode, activePanel, panels, selectedFiles, cwd, fs, inodes, relay, hist, limits, archive, opened, editor, streams, bulkRenameFrom, bulkRenameTo>>

\* A faulty loop: the error is kept for the result but the loop goes on.
MoveFailedGoesOn(bt) == [bt EXCEPT !.err = "rename failed", !.pc = "progress"]

\* What moveWithProgress does when os.Rename fails: the error is the batch's
\* result and the goroutine returns.
MoveFailed(bt) == [bt EXCEPT !.err = "rename failed", !.pc = "result"]

\* One turn of the loop of moveWithProgress: os.Rename(src, Join(dst, Base(src))).
MoveStep(b) ==
    /\ batches[b].kind = "mv" /\ batches[b].pc = "loop"
    /\ batches[b].i < batches[b].total
    /\ LET bt == batches[b]
           src == bt.sources[bt.i + 1]
           old == Resolve(src)
           new == Resolve(Join(bt.dst, <<Base(src)>>))
       IN  IF RenameOk(fs, old, new)
           THEN /\ fs' = RenameFs(fs, old, new)
                /\ inodes' = Reclaim(fs', inodes, batches)
                /\ batches' = [batches EXCEPT ![b].pc = "progress"]
                /\ hist' = [hist EXCEPT !.renamed[b] = @ \cup {src}]
           ELSE /\ batches' = [batches EXCEPT ![b] = MoveFailed(bt)]
                /\ UNCHANGED <<fs, inodes, hist>>
    /\ UNCHANGED <<mode, activePanel, panels, selectedFiles, cwd, relay, limits, archive, opened, editor, streams, bulkRenameFrom, bulkRenameTo>>

\* moveWithProgress after its loop: a fresh map for the goroutine's copy of
\* the panel, then the final ProgressMsg and the result.
MoveEnd(b) ==
    /\ batches[b].kind = "mv" /\ batches[b].pc = "loop"
    /\ batches[b].i = batches[b].total
    /\ batches' = [batches EXCEPT ![b].pSelectedFiles = "fresh", ![b].pc = "final"]
    /\ UNCHANGED <<mode, activePanel, panels, selectedFiles, cwd, fs, inodes, relay, hist, limits, archive, opened, editor, streams, bulkRenameFrom, bulkRenameTo>>

\* m.ProgressChan <- ProgressMsg{Percent: (i+1) / total} in the loops of
\* moveWithProgress and deleteWithProgress.
LoopSend(b) ==
    /\ batches[b].pc = "progress"
    /\ relay = NoMsg
    /\ relay' = Progress(b, batches[b].i + 1, batches[b].total)
    /\ batches' = [batches EXCEPT ![b].i = @ + 1, ![b].pc = "loop"]
    /\ hist' = [hist EXCEPT !.last[b] = <<batches[b].i + 1, batches[b].total>>]
    /\ UNCHANGED <<mode, activePanel, panels, selectedFiles, cwd, fs, inodes, limits, archive, opened, editor, streams, bulkRenameFrom, bulkRenameTo>>

\* deleteWithProgress up to its loop: the selected paths in map order.
DeleteCollect(b) ==
    /\ batches[b].kind = "rm" /\ batches[b].pc = "collect"
    /\ \E order \in Perms(SelectedOf(batches[b])) :
         batches' = [batches EXCEPT ![b].sources = order, ![b].total = Len(order),
                                    ![b].pc = "loop"]
    /\ UNCHANGED <<mode, activePanel, panels, selectedFiles, cwd, fs, inodes, relay, hist, limits, archive, opened, editor, streams, bulkRenameFrom, bulkRenameTo>>

\* A faulty loop: it stops at the first os.RemoveAll that fails.
DeleteNextAbort(bt, ok) ==
    IF ok THEN [bt EXCEPT !.pc = "progress"]
    ELSE [bt EXCEPT !.err = "remove failed", !.pc = "result"]

\* What deleteWithProgress does with the outcome of os.RemoveAll: the error
\* is dropped and the loop goes on to the progress message.
DeleteNext(bt, ok) == [bt EXCEPT !.pc = "progress"]

\* One turn of the loop of deleteWithProgress: os.RemoveAll(target), which may
\* fail on a path that exists (the host refuses) and is nil on an absent one.
DeleteStep(b) ==
    /\ batches[b].kind = "rm" /\ batches[b].pc = "loop"
    /\ batches[b].i < batches[b].total
    /\ LET bt == batches[b]
           target == bt.sources[bt.i + 1]
           t == Resolve(target)
       IN  \E ok \in (IF ExistsIn(fs, t) THEN {TRUE, FALSE} ELSE {TRUE}) :
             /\ fs' = IF ok THEN RemoveAllFs(fs, t) ELSE fs
             /\ inodes' = Reclaim(fs', inodes, batches)
             /\ batches' = [batches EXCEPT ![b] = DeleteNext(bt, ok)]
             /\ hist' = [hist EXCEPT !.attempted[b] = @ \cup {target},
                                     !.failed[b] = IF ok THEN @ ELSE @ \cup {target},
                                     !.removed[b] = IF ok /\ ExistsIn(fs, t) THEN @ \cup {target} ELSE @]
    /\ UNCHANGED <<mode, activePanel, panels, selectedFiles, cwd, relay, limits, archive, opened, editor, streams, bulkRenameFrom, bulkRenameTo>>

\* A faulty end of deleteWithProgress: it returns after its loop without a result.
DeleteEndSilent(b) ==
    /\ batches[b].kind = "rm" /\ batches[b].pc = "loop"
    /\ batches[b].i = batches[b].total
    /\ batches' = [batches EXCEPT ![b].pSelectedFiles = "fresh", ![b].pc = "done"]
    /\ UNCHANGED <<mode, activePanel, panels, selectedFiles, cwd, fs, inodes, relay, hist, limits, archive, opened, editor, streams, bulkRenameFrom, bulkRenameTo>>

\* deleteWithProgress after its loop: a fresh map for the goroutine's copy of
\* the panel, then the result.
DeleteEnd(b) ==
    /\ batches[b].kind = "rm" /\ batches[b].pc = "loop"
    /\ batches[b].i = batches[b].total
    /\ batches' = [batches EXCEPT ![b].pSelectedFiles = "fresh", ![b].pc = "result"]
    /\ UNCHANGED <<mode, activePanel, panels, selectedFiles, cwd, fs, inodes, relay, hist, limits, archive, opened, editor, streams, bulkRenameFrom, bulkRenameTo>>

----------------------------------------------------------------------------
(* The relay goroutine hands its message to Update *)

\* The jobs of a batch that still have a chunk to copy.
JobsCopying(bt) ==
    {k \in 1..Len(bt.jobs) :
        bt.jobs[k].pc = "start" \/ (bt.jobs[k].pc # "done" /\ bt.jobs[k].written < bt.jobs[k].size)}

\* Update, case ProgressMsg: a value >= 1.0 leaves progressMode and refreshes
\* both panels.
UpdateProgressMsg ==
    /\ relay.type = "progress"
    /\ relay' = NoMsg
    /\ IF relay.num >= relay.den
       THEN /\ mode' = "explorer"
            /\ panels' = [i \in {0, 1} |-> RefreshPanel(panels[i], fs)]
            /\ hist' = [hist EXCEPT !.earlyTerminal[relay.b] =
                                        @ \/ JobsCopying(batches[relay.b]) # {},
                                    !.lateProgress[relay.b] = @ \/ hist.delivered[relay.b]]
       ELSE /\ hist' = [hist EXCEPT !.lateProgress[relay.b] = @ \/ hist.delivered[relay.b]]
            /\ UNCHANGED <<mode, panels>>
    /\ UNCHANGED <<activePanel, selectedFiles, cwd, fs, inodes, batches, limits, archive, opened, editor, streams, bulkRenameFrom, bulkRenameTo>>

\* A faulty CommandResult handler: the mode is left as it is.
ModeKept(m) == m

\* Update, case CommandResult: m.mode = explorerMode, whatever it was.
ModeAfterResult(m) == "explorer"

\* Update, case CommandResult: the active panel is refreshed and the mode is
\* explorerMode again.
UpdateCommandResult ==
    /\ relay.type = "result"
    /\ relay' = NoMsg
    /\ mode' = ModeAfterResult(mode)
    /\ panels' = [panels EXCEPT ![activePanel] = RefreshPanel(@, fs)]
    /\ hist' = [hist EXCEPT !.delivered[relay.b] = TRUE,
                            !.selAtResult[relay.b] = Selected(selectedFiles[batches[relay.b].m.active])]
    /\ UNCHANGED <<activePanel, selectedFiles, cwd, fs, inodes, batches, limits, archive, opened, editor, streams, bulkRenameFrom, bulkRenameTo>>

----------------------------------------------------------------------------

Batches == 1..Len(batches)
JobsOf(b) == 1..Len(batches[b].jobs)

\* The steps of the batch goroutines and of their jobs.
Engine ==
    \/ \E b \in Batches : CopyCollect(b)
    \/ \E b \in Batches : \E k \in JobsOf(b) : JobOpen(b, k)
    \/ \E b \in Batches : \E k \in JobsOf(b) : JobChunk(b, k)
    \/ \E b \in Batches : \E k \in JobsOf(b) : JobSend(b, k)
    \/ \E b \in Batches : CopyWait(b)
    \/ \E b \in Batches : SendFinal(b)
    \/ \E b \in Batches : SendResult(b)
    \/ \E b \in Batches : MoveCollect(b)
    \/ \E b \in Batches : MoveStep(b)
    \/ \E b \in Batches : MoveEnd(b)
    \/ \E b \in Batches : LoopSend(b)
    \/ \E b \in Batches : DeleteCollect(b)
    \/ \E b \in Batches : DeleteStep(b)
    \/ \E b \in Batches : DeleteEnd(b)
    \/ \E b \in Batches : SystemRun(b)

\* The relay goroutine delivering to Update.
Deliver == UpdateProgressMsg \/ UpdateCommandResult

----------------------------------------------------------------------------
(* Bulk rename *)

\* What the user types into the command line before Enter in bulkRenameMode.
BulkInputs == {"x", "y", "("}

\* regexp.Compile(pattern) returns no error.
CompileOk(pattern) == pattern # "("

\* re.ReplaceAllString(name, to) for a pattern that is one literal character,
\* on the names of the model (none holds the character besides the name that
\* is that character).
ReplaceAllString(from, name, to) == IF name = from THEN to ELSE name

\* The loop of performBulkRename over the keys of selectedFiles in map order:
\* os.Rename(file, Join(Dir(file), newName)); a failure is reported and the
\* loop goes on.
RECURSIVE RenameEach(_, _, _, _)
RenameEach(f, order, from, to) ==
    IF order = <<>> THEN f
    ELSE LET file == Head(order)
             old == Resolve(file)
             new == Resolve(Join(ParentOf(file), <<ReplaceAllString(from, Base(file), to)>>))
         IN  RenameEach(IF RenameOk(f, old, new) THEN RenameFs(f, old, new) ELSE f,
                        Tail(order), from, to)

\* Update, key for bulk rename in explorerMode: mode = bulkRenameMode, the
\* command line is reset and gets its placeholder.
KeyBulkRename ==
    /\ mode = "explorer"
    /\ hist.keys < limits.keys
    /\ mode' = "bulkRename"
    /\ hist' = [hist EXCEPT !.keys = @ + 1]
    /\ UNCHANGED <<activePanel, panels, selectedFiles, cwd, fs, inodes, batches, relay, limits, archive, opened, editor, streams, bulkRenameFrom, bulkRenameTo>>

\* Update, Enter in bulkRenameMode with value in the command line: the first
\* Enter (no pattern stored) stores the pattern; the next one stores the
\* replacement, calls performBulkRename and goes back to explorerMode.
\* performBulkRename returns at once when the pattern does not compile;
\* otherwise it renames, replaces the selection map, refreshes the panel and
\* clears pattern and replacement.
BulkRenameEnter(value) ==
    /\ mode = "bulkRename"
    /\ hist.keys < limits.keys
    /\ hist' = [hist EXCEPT !.keys = @ + 1]
    /\ IF bulkRenameFrom = ""
       THEN /\ bulkRenameFrom' = value
            /\ UNCHANGED <<mode, panels, selectedFiles, fs, inodes, bulkRenameTo>>
       ELSE /\ mode' = "explorer"
            /\ IF ~CompileOk(bulkRenameFrom)
               THEN /\ bulkRenameTo' = value
                    /\ UNCHANGED <<panels, selectedFiles, fs, inodes, bulkRenameFrom>>
               ELSE /\ \E order \in Perms(DOMAIN selectedFiles[activePanel]) :
                         fs' = RenameEach(fs, order, bulkRenameFrom, value)
                    /\ inodes' = Reclaim(fs', inodes, batches)
                    /\ selectedFiles' = [selectedFiles EXCEPT ![activePanel] = NewMap]
                    /\ panels' = [panels EXCEPT ![activePanel] = RefreshPanel(@, fs')]
                    /\ bulkRenameFrom' = ""
                    /\ bulkRenameTo' = ""
    /\ UNCHANGED <<activePanel, cwd, batches, relay, limits, archive, opened, editor, streams>>

\* What the user does.
Keys ==
    \/ KeyTab
    \/ KeyRefresh
    \/ KeySelectIt
    \/ \E arg \in CdArgs : CmdCd(arg)
    \/ MountArchive
    \/ CmdSftp
    \/ KeyCopy
    \/ KeyMove
    \/ CmdRm
    \/ \E args \in TypedArgs : CmdCp(args)
    \/ \E args \in TypedArgs : CmdMv(args)
    \/ KeyIgnored
    \/ \E arg \in HeditArgs : CmdHedit(arg)
    \/ KeyEdit
    \/ KeySave
    \/ KeyCancel
    \/ CmdSystem
    \/ KeyBulkRename
    \/ \E value \in BulkInputs : BulkRenameEnter(value)

Next == Keys \/ Engine \/ Deliver

Spec == Init /\ [][Next]_vars

\* The same program over longer runs.
WideSpec == WideInit /\ [][Next]_vars

\* The archive backends' listings on their own, over every container of the
\* bound.
ArchiveNext ==
    \/ \E dir \in QueryDirs : ReadDir(dir)
    \/ \E title \in ItemNames : \E isDir \in BOOLEAN : EnterItem(title, isDir)

ArchiveStart ==
    /\ mode = "explorer"
    /\ activePanel = 0
    /\ cwd = Wd
    /\ fs = InitFs
    /\ inodes = InitInodes
    /\ panels = [i \in {0, 1} |-> InitPanel]
    /\ selectedFiles = [i \in {0, 1} |-> NewMap]
    /\ batches = <<>>
    /\ relay = NoMsg
    /\ hist = InitHist
    /\ limits = [keys |-> 0, batches |-> 0]
    /\ ArchiveInit
    /\ opened = NoOpened
    /\ editor = NoEditor
    /\ streams = <<>>
    /\ bulkRenameFrom = ""
    /\ bulkRenameTo = ""

ArchiveSpec == ArchiveStart /\ [][ArchiveNext]_vars

\* Opening and closing streams on their own.
StreamNext ==
    \/ \E gz, gzipOk \in BOOLEAN : \E scan \in ScanOutcomes : OpenTar(gz, gzipOk, scan)
    \/ \E n \in 1..Len(streams) : CloseStream(n)
    \/ \E kind \in {"local", "sftp", "tar", "zip"} : \E gz, openOk, statOk, readOk, reopenOk \in BOOLEAN :
          (gz => kind = "tar") /\ UpdatePreview(kind, gz, openOk, statOk, readOk, reopenOk)

StreamStart ==
    /\ mode = "explorer"
    /\ activePanel = 0
    /\ cwd = Wd
    /\ fs = InitFs
    /\ inodes = InitInodes
    /\ panels = [i \in {0, 1} |-> InitPanel]
    /\ selectedFiles = [i \in {0, 1} |-> NewMap]
    /\ batches = <<>>
    /\ relay = NoMsg
    /\ hist = InitHist
    /\ limits = [keys |-> 0, batches |-> 0]
    /\ archive = NoArchive
    /\ opened = NoOpened
    /\ editor = NoEditor
    /\ streams = <<>>
    /\ bulkRenameFrom = ""
    /\ bulkRenameTo = ""

StreamSpec == StreamStart /\ [][StreamNext]_vars

\* The Go scheduler runs every runnable goroutine, and the event loop takes
\* every message the relay goroutine hands it.
LiveSpec == LiveInit /\ [][Next]_vars /\ WF_vars(Engine) /\ WF_vars(Deliver)

----------------------------------------------------------------------------
(* Properties *)

Range(q) == {q[n] : n \in 1..Len(q)}
Returned(bt) == bt.pc = "done"
ArchiveBound(bt) == bt.m.vfs[bt.m.active].kind # "local"
FailedJobs(bt) == {k \in 1..Len(bt.jobs) : bt.jobs[k].pc = "done" /\ bt.jobs[k].err # "nil"}

\* C1: when the terminal result of a batch reaches Update, the map of selected
\* paths of the panel that started the batch, as the interface holds it, is
\* empty.
C1_SelectionClearedAtResult ==
    \A b \in Batches : hist.delivered[b] => hist.selAtResult[b] = {}

\* C2: in a copy batch of two or more files no progress value >= 1.0 reaches
\* Update while a job of the batch still has a chunk to copy.
C2_NoTerminalSignalWhileCopying ==
    \A b \in Batches :
        (batches[b].kind = "cp" /\ batches[b].total >= 2) => ~hist.earlyTerminal[b]

\* C3: a batch has sent no CommandResult until it returns and exactly one
\* when it has returned, on every path (failed rename, failed copy job, empty
\* source list included); it never sends a second one.
C3_ExactlyOneResult ==
    \A b \in Batches :
        /\ hist.sent[b] <= 1
        /\ Returned(batches[b]) => hist.sent[b] = 1
        /\ hist.delivered[b] => hist.sent[b] = 1

\* C3 witness: a move batch that failed at a rename (and so left its loop
\* early) has returned, having sent its one result, and the result has
\* reached Update.
C3_Witness ==
    \E b \in Batches :
        /\ batches[b].kind = "mv" /\ batches[b].err = "rename failed"
        /\ batches[b].i < batches[b].total
        /\ Returned(batches[b]) /\ hist.sent[b] = 1 /\ hist.delivered[b]

\* C4: once a copy batch is past eg.Wait (its final progress and its result
\* come after), every job of the batch has returned, and each job returned on
\* its own outcome: with an error of its own, or with nil after opening its
\* source and reading it to the end.
C4_JoinAll ==
    \A b \in Batches :
        (batches[b].kind = "cp" /\ (batches[b].pc \in {"final", "result", "done"} \/ hist.sent[b] > 0)) =>
            \A k \in JobsOf(b) :
                /\ batches[b].jobs[k].pc = "done"
                /\ batches[b].jobs[k].err = "nil" => batches[b].jobs[k].sIno # NoIno

\* C4 witness: a copy batch has sent its result; one of its jobs failed and
\* another one ran to the end.
C4_Witness ==
    \E b \in Batches :
        /\ batches[b].kind = "cp" /\ hist.sent[b] = 1
        /\ FailedJobs(batches[b]) # {}
        /\ \E k \in JobsOf(b) : batches[b].jobs[k].err = "nil" /\ batches[b].jobs[k].pc = "done"

\* The file at path d holds exactly the bytes of the source a job read from.
FullyWritten(j) ==
    LET d == Resolve(j.dst)
    IN  /\ IsFileIn(fs, d)
        /\ j.written = j.size
        /\ Len(inodes[fs[d].ino]) = j.size
        /\ j.sIno \in DOMAIN inodes /\ inodes[fs[d].ino] = inodes[j.sIno]

\* C5: when every batch has returned, a copy batch in which exactly one
\* source could not be opened has written the destination file of each of
\* its other sources in full, and its result carries the error of the failing
\* source.
C5_OthersFullyWritten ==
    \A b \in Batches :
        LET bt == batches[b]
            missing == {k \in JobsOf(b) : bt.jobs[k].err = "ErrNotExist"}
        IN  (/\ bt.kind = "cp"
             /\ \A c \in Batches : Returned(batches[c])
             /\ Cardinality(missing) = 1
             /\ FailedJobs(bt) = missing) =>
                /\ bt.err = "ErrNotExist"
                /\ \A k \in JobsOf(b) \ missing : FullyWritten(bt.jobs[k])

\* C6: no two jobs of one copy batch write the same destination path.
C6_DistinctDestinations ==
    \A b \in Batches :
        batches[b].kind = "cp" =>
            \A k1, k2 \in JobsOf(b) :
                k1 # k2 => Resolve(batches[b].jobs[k1].dst) # Resolve(batches[b].jobs[k2].dst)

\* Every batch started so far has sent its result, and no job waits in a send
\* on ProgressChan.
AllResultsSent ==
    \A b \in Batches :
        /\ hist.sent[b] = 1
        /\ \A k \in JobsOf(b) : batches[b].jobs[k].pc # "send"

\* C7: under fair scheduling every batch that was started eventually sends its
\* terminal result and no job stays in a send on ProgressChan for ever: again
\* and again the run is in a state where all batches started so far have sent
\* their result and no job is waiting in a send.
C7_EveryBatchTerminates == []<>AllResultsSent

\* C7 witness: a copy batch of two files, both of whose jobs got past their
\* progress sends, has sent its result.
C7_Witness ==
    \E b \in Batches :
        /\ batches[b].kind = "cp" /\ batches[b].total = 2 /\ hist.sent[b] = 1
        /\ \A k \in JobsOf(b) : batches[b].jobs[k].written > 0 /\ batches[b].jobs[k].err = "nil"

\* C8: a move batch started in a panel bound to an archive backend renames
\* nothing on the host filesystem, and returns with an Unsupported error.
C8_ArchiveMoveUnsupported ==
    \A b \in Batches :
        (batches[b].kind = "mv" /\ ArchiveBound(batches[b])) =>
            /\ hist.renamed[b] = {}
            /\ Returned(batches[b]) => batches[b].err = "Unsupported"

\* C9: a delete batch started in a panel bound to an archive backend removes
\* nothing from the host filesystem, and returns with an Unsupported error.
C9_ArchiveDeleteUnsupported ==
    \A b \in Batches :
        (batches[b].kind = "rm" /\ ArchiveBound(batches[b])) =>
            /\ hist.removed[b] = {}
            /\ Returned(batches[b]) => batches[b].err = "Unsupported"

\* C10: when a delete batch is past its loop, os.RemoveAll has been called on
\* every one of its targets, whatever the calls returned; its result follows.
C10_AllDeletionsAttempted ==
    \A b \in Batches :
        (batches[b].kind = "rm" /\ (batches[b].pc \in {"result", "done"} \/ hist.sent[b] > 0)) =>
            /\ hist.attempted[b] = Range(batches[b].sources)
            /\ batches[b].i = batches[b].total

\* C10 witness: a delete batch over two targets has sent its result after the
\* removal of its first target failed.
C10_Witness ==
    \E b \in Batches :
        /\ batches[b].kind = "rm" /\ batches[b].total = 2 /\ hist.sent[b] = 1
        /\ batches[b].sources[1] \in hist.failed[b]
        /\ hist.attempted[b] = Range(batches[b].sources)

\* A progress value is exactly 1.0.
IsOne(v) == v[2] > 0 /\ v[1] = v[2]

\* C11: once a copy batch has got to its terminal result (about to send it, or
\* sent), the last progress value it emitted is exactly 1.0.
C11_FinalProgressIsOne ==
    \A b \in Batches :
        (batches[b].kind = "cp" /\ (batches[b].pc \in {"result", "done"} \/ hist.sent[b] > 0)) =>
            IsOne(hist.last[b])

\* C11 witness: a copy batch of two files whose jobs emitted progress of their
\* own has sent its result.
C11_Witness ==
    \E b \in Batches :
        /\ batches[b].kind = "cp" /\ batches[b].total = 2 /\ hist.sent[b] = 1
        /\ \E k \in JobsOf(b) : batches[b].jobs[k].written > 0

\* v does not exceed w (fractions; x/0 with x > 0 is +Inf).
FracLeq(v, w) == v[1] * w[2] <= w[1] * v[2]

\* C12: within one file of a copy batch the fraction written/size passed to
\* the progress callback never decreases from one chunk to the next.
C12_PerFileMonotone ==
    [][\A b \in Batches : \A k \in JobsOf(b) :
          FracLeq(batches[b].jobs[k].percent, batches'[b].jobs[k].percent)]_vars

\* C12 witness: a job has passed the fraction of its second chunk to the
\* callback.
C12_Witness ==
    \E b \in Batches : \E k \in JobsOf(b) :
        batches[b].jobs[k].percent[1] = 2 /\ batches[b].jobs[k].pc = "send"

\* C13: every aggregate value job i of a copy batch of N files is about to
\* emit lies in [i/N, (i+1)/N] and in [0.0, 1.0].
C13_AggregateInRange ==
    \A b \in Batches : \A k \in JobsOf(b) :
        batches[b].jobs[k].pc = "send" =>
            LET n == batches[b].total
                o == Overall(k - 1, batches[b].jobs[k].percent, n)
            IN  /\ o[2] > 0
                /\ (k - 1) * o[2] <= o[1] * n /\ o[1] * n <= k * o[2]
                /\ 0 <= o[1] /\ o[1] <= o[2]

\* C14: for a panel bound to an archive, ChangeDirectory succeeds for every
\* argument and CurrentDirectory stays the path of the mounted container: the
\* panel's current path is the container's path, before and after any cd.
C14_ArchiveCdKeepsPath ==
    \A i \in {0, 1} :
        panels[i].vfs.kind = "tar" =>
            /\ panels[i].currentDir = panels[i].vfs.filename
            /\ \A arg \in CdArgs \cup {<<"/", "a">>, <<"nowhere">>} :
                 LET target == CdTarget(panels[i], arg)
                 IN  /\ ChdirOk(panels[i].vfs, fs, target)
                     /\ Getwd(panels[i].vfs, CwdAfterChdir(panels[i].vfs, target))
                            = panels[i].vfs.filename

\* C14 witness: a cd was carried out in a panel bound to an archive.
C14_Witness ==
    /\ hist.archiveCd
    /\ \E i \in {0, 1} : panels[i].vfs.kind = "tar"

\* C15: a successful cd to a directory d in a panel bound to the local or to a
\* remote backend leaves d as the panel's current path.
C15_CdSetsCurrentPath ==
    [][\A arg \in CdArgs :
          (/\ CmdCd(arg)
           /\ panels[activePanel].vfs.kind \in {"local", "sftp"}
           /\ ChdirOk(panels[activePanel].vfs, fs, CdTarget(panels[activePanel], arg))) =>
              panels'[activePanel].currentDir = Clean(CdTarget(panels[activePanel], arg))]_vars

\* The batch, started in a panel of the local backend, takes its source and a
\* relative destination from the command.
ExplicitRelative(bt) ==
    /\ bt.pc # "collect"
    /\ bt.m.vfs[bt.m.active].kind = "local"
    /\ Len(bt.args) >= 2
    /\ bt.dst = bt.args[2]
    /\ ~IsAbs(bt.dst)

\* A relative path taken against the current path of the panel the batch
\* was started in.
PanelRelative(bt, path) == Clean(bt.m.dir[bt.m.active] \o path)

\* C16: the destination path an explicit cp or mv with a relative destination
\* is about to create or rename to is the one resolved against the current
\* path of the panel the command was typed in.
C16_RelativeDestinationPanelRelative ==
    \A b \in Batches :
        ExplicitRelative(batches[b]) =>
            /\ \A k \in JobsOf(b) :
                 batches[b].jobs[k].pc = "start" =>
                     Resolve(batches[b].jobs[k].dst) = PanelRelative(batches[b], batches[b].jobs[k].dst)
            /\ (batches[b].kind = "mv" /\ batches[b].pc = "loop" /\ batches[b].i < batches[b].total) =>
                 LET newPath == Join(batches[b].dst, <<Base(batches[b].sources[batches[b].i + 1])>>)
                 IN  Resolve(newPath) = PanelRelative(batches[b], newPath)

\* C17: a panel holds at most the one live backend resource of the backend it
\* is bound to: no session of a backend it was bound to before is still open.
C17_PreviousBackendTornDown ==
    \A i \in {0, 1} :
        hist.live[i] <= (IF panels[i].vfs.kind = "sftp" THEN 1 ELSE 0)

\* C18: a mount attempt that fails (archive or remote session) leaves both
\* panels, their backends and their current paths, exactly as they were.
C18_FailedMountChangesNothing ==
    [][hist'.failedMounts # hist.failedMounts => panels' = panels]_vars

\* C18 witness: the mount of a container that can no longer be read has
\* failed.
C18_Witness ==
    /\ hist.failedMounts.tar > 0
    /\ \E i \in {0, 1} :
         /\ panels[i].vfs.kind = "local"
         /\ \E it \in panels[i].fileList :
              /\ IsArchive(it.title)
              /\ ~TarMountOk(fs, inodes, Join(panels[i].currentDir, <<it.title>>))

\* The files and directories of the tree that lie directly in dir.
ChildrenOf(dir, files) ==
    {n \in files \cup DirsOf(files) :
        /\ HasPrefix(n, ListPrefix(ArchiveFile, dir))
        /\ Len(n) > Len(ListPrefix(ArchiveFile, dir))
        /\ ~ContainsSlash(SubSeq(n, Len(ListPrefix(ArchiveFile, dir)) + 1, Len(n)))}

\* What C19 asks of one listing: every entry stands for a file or directory
\* lying directly in dir, under its base name or under its name in the
\* container, and carries the flag a successful Stat of that path gives.
DirectChildren(list, dir, files, explicit) ==
    \A e \in list : \E n \in ChildrenOf(dir, files) :
        /\ e.name \in {BaseName(n), n}
        /\ StatOk(Records(files, explicit), n) =>
               e.isDir = StatIsDir(Records(files, explicit), n)

\* C19: a listing of an archive backend holds only direct children of the
\* directory asked for, never a deeper descendant nor the directory itself,
\* each with the isDirectory flag a successful Stat of its path gives.
C19_ListsOnlyDirectChildren ==
    archive.asked =>
        /\ DirectChildren(archive.tar, archive.dir, archive.files, archive.explicit)
        /\ DirectChildren(archive.zip, archive.dir, archive.files, archive.explicit)

\* C20: a tar and a zip container holding the same files, with or without
\* directory records, list the same child names with the same flags for the
\* same directory.
C20_TarAndZipListAlike == archive.asked => archive.tar = archive.zip

\* The top-level members of the container a panel is bound to.
TopLevel(v) == {e[1] : e \in {n \in v.entries : Len(n) = 1}}

\* C21: a panel bound to an archive and standing at the mount anchor (the
\* container's path, which the refresh passes to ReadDir) lists one entry for
\* every top-level member of the container.
C21_AnchorListsTopLevel ==
    \A i \in {0, 1} :
        (panels[i].vfs.kind = "tar" /\ panels[i].currentDir = panels[i].vfs.filename) =>
            {it.title : it \in panels[i].fileList} = TopLevel(panels[i].vfs)

\* C22: a copy batch started in a panel bound to an archive, whose sources
\* are the panel's current path joined with the names of members of the
\* container, opens every one of its sources.
C22_ArchiveSourcesOpen ==
    \A b \in Batches :
        LET bt == batches[b]
            v == bt.m.vfs[bt.m.active]
        IN  (bt.kind = "cp" /\ v.kind = "tar") =>
                \A k \in JobsOf(b) :
                    bt.jobs[k].src \in {Join(bt.m.dir[bt.m.active], <<n>>) : n \in TopLevel(v)} =>
                        bt.jobs[k].err # "ErrNotExist"

\* The name ends in one of the archive extensions the interface advertises.
ArchiveExtension(title) ==
    \E suffix \in {DotZip, DotTar, DotTarGz, DotGz} : HasSuffix(title, suffix)

\* C23: Enter on a file whose name ends in .zip, .tar, .tar.gz or .gz mounts
\* it, and a name the interface takes for an archive is given to a backend
\* constructor by the mount, never rejected as unsupported.
C23_ArchiveNamesMount ==
    /\ (opened.does # "none" /\ ~opened.isDir /\ ArchiveExtension(opened.title)) =>
           opened.does = "mountArchive"
    /\ opened.does = "mountArchive" => opened.backend # "Unsupported archive"

\* C24: a cd whose Chdir fails leaves the panels (current paths, backends,
\* listings), the process working directory and the mode as they were, and
\* starts no goroutine.
C24_FailedCdChangesNothing ==
    [][\A arg \in CdArgs :
          (CmdCd(arg) /\ ~ChdirOk(panels[activePanel].vfs, fs, CdTarget(panels[activePanel], arg))) =>
              UNCHANGED <<panels, cwd, mode, activePanel, selectedFiles, batches, relay>>]_vars

\* C24 witness: a cd has failed, and the panel that is active still cannot
\* enter d.
C24_Witness ==
    /\ hist.failedCd
    /\ ~ChdirOk(panels[activePanel].vfs, fs, CdTarget(panels[activePanel], <<"d">>))

\* C25: while the mode is progressMode a key press changes nothing of the
\* model: not the mode, the active panel, the panels' paths, backends and
\* listings, the selections or the editor, and it starts no goroutine.
C25_KeysIgnoredInProgress ==
    [][(mode = "progress" /\ hist'.keys # hist.keys) =>
          UNCHANGED <<mode, activePanel, panels, selectedFiles, cwd, editor, batches, relay, fs, inodes>>]_vars

\* C25 witness: a key was pressed during a transfer, and the transfer is
\* still shown.
C25_Witness ==
    /\ hist.ignored
    /\ mode = "progress"
    /\ \E b \in Batches : ~hist.delivered[b]

\* A transfer batch is active from its start until its result has reached
\* Update.
ActiveBatches == {b \in Batches : batches[b].kind \in {"cp", "mv", "rm"} /\ ~hist.delivered[b]}

\* C26: at most one copy, move or delete batch is active at any time.
C26_OneBatchAtATime == Cardinality(ActiveBatches) <= 1

\* C27: under fair scheduling progressMode always leads back to explorerMode,
\* and the step in which Update handles the terminal result of a batch ends
\* in explorerMode.
C27_ProgressModeEnds ==
    /\ (mode = "progress") ~> (mode = "explorer")
    /\ [][(\E b \in Batches : ~hist.delivered[b] /\ hist'.delivered[b]) => mode' = "explorer"]_vars

\* C27 witness: the result of a delete batch, which sends no final progress
\* value of its own, has been handled and the mode is explorerMode.
C27_Witness ==
    \E b \in Batches :
        /\ batches[b].kind = "rm" /\ batches[b].total = 0
        /\ hist.delivered[b] /\ mode = "explorer"

\* C28: no progress message of a batch reaches Update after the terminal
\* result of that batch has reached it.
C28_NoProgressAfterResult == \A b \in Batches : ~hist.lateProgress[b]

\* C28 witness: a delete batch that sent a progress message for its target
\* has had its result handled by Update.
C28_Witness ==
    \E b \in Batches :
        /\ batches[b].kind = "rm" /\ batches[b].total >= 1
        /\ hist.last[b] # NoProgress
        /\ hist.delivered[b]

\* C29: the mode changes from editorMode to another one only in a step that
\* handles a key (save or cancel), never in one that handles a progress
\* message or a result.
C29_EditorLeftOnlyByKeys ==
    [][(mode = "editor" /\ mode' # "editor") => hist'.keys # hist.keys]_vars

\* The move batch has met a failing rename.
MoveStopped(bt) == bt.kind = "mv" /\ bt.err = "rename failed"

\* C30: a move batch that met a failing rename has left its loop at that
\* source: exactly the sources before it have been renamed, the result it
\* sends carries the error, it has emitted no progress value 1.0, and none of
\* the steps it still takes touches the filesystem.
C30_FailedRenameStopsBatch ==
    /\ [](\A b \in Batches :
            MoveStopped(batches[b]) =>
                /\ batches[b].pc \in {"result", "done"}
                /\ batches[b].i < batches[b].total
                /\ hist.renamed[b] = Range(SubSeq(batches[b].sources, 1, batches[b].i))
                /\ ~IsOne(hist.last[b])
                /\ (relay.type = "result" /\ relay.b = b) => relay.err = "rename failed")
    /\ [][\A b \in Batches :
             (MoveStopped(batches[b]) /\ batches'[b] # batches[b]) =>
                 fs' = fs /\ hist'.renamed[b] = hist.renamed[b]]_vars

\* C30 witness: a move batch of two sources renamed the first, failed at the
\* second and has sent its result.
C30_Witness ==
    \E b \in Batches :
        /\ MoveStopped(batches[b])
        /\ batches[b].total = 2 /\ batches[b].i = 1
        /\ hist.renamed[b] = {batches[b].sources[1]}
        /\ hist.sent[b] = 1

\* The step is a cd, an sftp mount or an archive mount in the active panel.
NavigationStep == (\E arg \in CdArgs : CmdCd(arg)) \/ CmdSftp \/ MountArchive

\* C31: a cd, an sftp mount or an archive mount in the active panel leaves
\* the current path, the backend and the selected paths of the other panel
\* as they were, wherever the earlier cds, mounts and panel switches have
\* taken the two panels.
C31_OtherPanelUntouched ==
    [][NavigationStep =>
          /\ panels'[1 - activePanel].currentDir = panels[1 - activePanel].currentDir
          /\ panels'[1 - activePanel].vfs = panels[1 - activePanel].vfs
          /\ selectedFiles'[1 - activePanel] = selectedFiles[1 - activePanel]]_vars

\* C31 witness: the active panel has been taken to another backend and
\* another path while the other panel, which has a selection, is where it
\* started.
C31_Witness ==
    /\ panels[activePanel].vfs.kind # "local"
    /\ panels[activePanel].currentDir # Wd
    /\ panels[1 - activePanel].vfs = LocalVFS
    /\ panels[1 - activePanel].currentDir = Wd
    /\ Selected(selectedFiles[1 - activePanel]) # {}

\* C32: a panel that is bound to a remote session or to an archive is never
\* bound to the local backend again, whatever step is taken.
C32_NeverBackToLocal ==
    [][\A i \in {0, 1} :
          panels[i].vfs.kind # "local" => panels'[i].vfs.kind # "local"]_vars

\* C32 witness: a batch started in a panel bound to a remote session has
\* run and its result has been handled; the panel is still bound to the
\* session.
C32_Witness ==
    \E i \in {0, 1} : \E b \in Batches :
        /\ panels[i].vfs.kind = "sftp"
        /\ batches[b].m.active = i /\ batches[b].m.vfs[i].kind = "sftp"
        /\ hist.delivered[b]

\* C33: the container file of every tarVFS.Open is released: it is closed
\* when Open returned without a stream, and it is closed once the stream
\* Open returned has been closed, for plain and gzip containers alike.
C33_TarOpenReleasesFile ==
    \A n \in 1..Len(streams) :
        streams[n].kind = "tar" =>
            /\ ~streams[n].returned => streams[n].fileClosed
            /\ (streams[n].returned /\ streams[n].closes >= 1) => streams[n].fileClosed

\* C34: every stream updatePreview opened is closed exactly once when it
\* returns, seekable or not.
C34_PreviewClosesOnce ==
    \A n \in 1..Len(streams) :
        streams[n].by = "preview" => streams[n].closes = 1

\* A copy job has returned the error of Open or Stat on its source, or the
\* directory error.
FailedBeforeCreate(j) == j.pc = "done" /\ j.err \in {"ErrNotExist", "dir copy not implemented"}

\* C35: a copy job that fails before os.Create (source not opened, not
\* stat'ed, or a directory) leaves its destination path as it was: no file
\* is created there and none is truncated.
C35_FailedCopyLeavesDestination ==
    [][\A b \in Batches : \A k \in JobsOf(b) :
          (JobOpen(b, k) /\ FailedBeforeCreate(batches'[b].jobs[k])) =>
              LET d == Resolve(batches[b].jobs[k].dst)
              IN  /\ ExistsIn(fs', d) = ExistsIn(fs, d)
                  /\ ExistsIn(fs, d) => fs'[d] = fs[d]
                  /\ (ExistsIn(fs, d) /\ ~fs[d].dir) => inodes'[fs[d].ino] = inodes[fs[d].ino]]_vars

\* A copy job has failed on a directory source while its destination was
\* free and could have been created.
C35_Witness ==
    \E b \in Batches : \E k \in JobsOf(b) :
        /\ batches[b].kind = "cp"
        /\ FailedBeforeCreate(batches[b].jobs[k])
        /\ CreateOk(fs, Resolve(batches[b].jobs[k].dst))
        /\ ~ExistsIn(fs, Resolve(batches[b].jobs[k].dst))

\* The paths whose selection state differs between two maps.
Changed(before, after) ==
    (Selected(before) \ Selected(after)) \cup (Selected(after) \ Selected(before))

\* C36: a toggle changes the selection state of exactly one path, the one
\* under the cursor, in the active panel only; toggling that path once more
\* gives back the set of selected paths there was before the first toggle.
C36_ToggleTwiceRestores ==
    [][KeySelectIt =>
          /\ selectedFiles'[1 - activePanel] = selectedFiles[1 - activePanel]
          /\ \E it \in panels[activePanel].fileList :
                LET fullPath == Join(panels[activePanel].currentDir, <<it.title>>)
                IN  /\ Changed(selectedFiles[activePanel], selectedFiles'[activePanel]) = {fullPath}
                    /\ Selected(Toggle(selectedFiles'[activePanel], fullPath))
                           = Selected(selectedFiles[activePanel])]_vars

\* A path has been toggled on and off again while another path of the same
\* panel is selected.
C36_Witness ==
    \E i \in {0, 1} : \E f, g \in DOMAIN selectedFiles[i] :
        ~selectedFiles[i][f] /\ selectedFiles[i][g]

\* C37: whenever the interface enters bulkRenameMode the stored pattern is
\* empty, so that the first Enter stores the pattern; also after a bulk
\* rename that was rejected for a pattern that does not compile.
C37_PatternEmptyOnEntry ==
    [][(mode # "bulkRename" /\ mode' = "bulkRename") => bulkRenameFrom' = ""]_vars

====
